---- MODULE Spec2Model ----
(***************************************************************************)
(* Model of the goldmarketcap dashboard's data shaping:                    *)
(*   - LatestPricesTable.tsx: aggregatedSources (per-source summary +      *)
(*     descending sort) and the rank shown in the mobile / desktop views;  *)
(*   - CandlestickChart.tsx (lightweight-charts): processCandles;          *)
(*   - the recharts CandlestickChart: formatCandles and its axis domain.   *)
(*                                                                         *)
(* JavaScript numbers are modelled as fixed-point values counted in        *)
(* 1/Scale units, with NaN kept as a separate value.  An optional value    *)
(* (a field that may be null / undefined) is a sequence of length 0 or 1.  *)
(***************************************************************************)
EXTENDS Integers, Sequences, FiniteSets

\* ---------------------------------------------------------------- bounds
MaxSources == 2     \* sources in one latest-prices payload
MaxCandles == 2     \* candles in one series

\* ------------------------------------------------------ JavaScript values
Scale == 100

None == <<>>
Some(x) == <<x>>
IsSome(o) == Len(o) = 1
Get(o) == o[1]

NaN == [nan |-> TRUE, v |-> 0]
Num(n) == [nan |-> FALSE, v |-> n]
IsNumber(a) == ~a.nan

\* The decimal strings the upstream API encodes prices with.
DecimalStrings ==
    <<"1", "2", "3", "4", "5", "6", "7", "8", "9", "10",
      "11", "12", "13", "14", "15", "16", "17", "18", "19", "20">>

\* Number(s): a decimal string, with or without a minus sign, parses to its
\* value, anything else to NaN.
Number(s) ==
    IF \E i \in 1..Len(DecimalStrings) : DecimalStrings[i] = s
    THEN Num(Scale * (CHOOSE i \in 1..Len(DecimalStrings) : DecimalStrings[i] = s))
    ELSE IF \E i \in 1..Len(DecimalStrings) : "-" \o DecimalStrings[i] = s
    THEN Num(0 - Scale * (CHOOSE i \in 1..Len(DecimalStrings) :
                            "-" \o DecimalStrings[i] = s))
    ELSE NaN

Add(a, b) == IF a.nan \/ b.nan THEN NaN ELSE Num(a.v + b.v)
Sub(a, b) == IF a.nan \/ b.nan THEN NaN ELSE Num(a.v - b.v)
Half(a) == IF a.nan THEN NaN ELSE Num(a.v \div 2)
\* a >= b, a > b on JavaScript numbers: false as soon as one side is NaN.
Geq(a, b) == ~a.nan /\ ~b.nan /\ a.v >= b.v
Gt(a, b) == ~a.nan /\ ~b.nan /\ a.v > b.v
MathMax(a, b) == IF a.nan \/ b.nan THEN NaN ELSE IF a.v >= b.v THEN a ELSE b
MathMin(a, b) == IF a.nan \/ b.nan THEN NaN ELSE IF a.v <= b.v THEN a ELSE b
MathAbs(a) == IF a.nan THEN NaN ELSE IF a.v < 0 THEN Num(-a.v) ELSE a

\* ------------------------------------------------- latest-prices payload
SourceNames == <<"tgju", "milli", "wallgold", "daric", "estjt">>
Sides == {"buy", "sell", "default"}
SideIndex(side) == CASE side = "buy" -> 1 [] side = "sell" -> 2 [] OTHER -> 3

\* The price strings a quote record may carry: a decimal, or a string that
\* is no number.  A source quotes its sell price above its buy price; its
\* default price is either of them.
RawPrices(side) ==
    CASE side = "buy" -> {"1", "abc"}
      [] side = "sell" -> {"2", "abc"}
      [] OTHER -> {"1", "2", "abc"}

\* The quote record the backend sends for side `side` of the k-th source.
\* The tracking fields differ from record to record and do not depend on the
\* price; the default record leaves the optional ones out.
QuoteRecord(k, side, price) ==
    [side |-> side,
     price |-> price,
     created_at |-> 10 * k + SideIndex(side),
     price_direction |-> CASE side = "buy" -> Some("up")
                           [] side = "sell" -> Some("down")
                           [] OTHER -> None,
     rank_change |-> CASE side = "buy" -> k
                       [] side = "sell" -> 0 - k
                       [] OTHER -> 0,
     sparkline_7d |-> CASE side = "buy" -> Some(<<k, k + 1>>)
                        [] side = "sell" -> Some(<<k + 1, k>>)
                        [] OTHER -> None,
     change_1h |-> IF side = "default" THEN None ELSE Some(10 * k + SideIndex(side)),
     change_24h |-> IF side = "default" THEN None ELSE Some(20 * k + SideIndex(side)),
     change_7d |-> IF side = "sell" THEN None ELSE Some(30 * k + SideIndex(side))]

SideValues(k, side) == {None} \cup {Some(QuoteRecord(k, side, p)) : p \in RawPrices(side)}

\* What a source maps to: null, a string, or an object of side records.
SideMaps(k) ==
    {[kind |-> "null"], [kind |-> "string"]} \cup
    {[kind |-> "object", buy |-> b, sell |-> s, default |-> d] :
        b \in SideValues(k, "buy"), s \in SideValues(k, "sell"),
        d \in SideValues(k, "default")}

Entries(k) == {[source |-> SourceNames[k], sides |-> m] : m \in SideMaps(k)}

VARIABLES data, isLoading, error, aggregatedSources, view, pc,
          history, processedData, chartData, chartPc,
          yDomain, barProps, shape,
          minuteProps, minuteData, minuteView,
          hourProps, phase, nativeView, refs, charts, listeners, effects,
          interval, chartSource, swrCache, inFlight, minuteKey, hourKey,
          child, pagePc

tableVars == <<data, isLoading, error, aggregatedSources, view, pc>>
chartVars == <<history, processedData, chartData, chartPc,
               yDomain, barProps, shape>>
minuteVars == <<minuteProps, minuteData, minuteView>>
nativeVars == <<hourProps, phase, nativeView, refs, charts, listeners, effects>>
pageVars == <<interval, chartSource, swrCache, inFlight, minuteKey, hourKey,
              child, pagePc>>
vars == <<data, isLoading, error, aggregatedSources, view, pc,
          history, processedData, chartData, chartPc,
          yDomain, barProps, shape,
          minuteProps, minuteData, minuteView,
          hourProps, phase, nativeView, refs, charts, listeners, effects,
          interval, chartSource, swrCache, inFlight, minuteKey, hourKey,
          child, pagePc>>

\* What the actions of one component leave alone.
notTableVars == <<chartVars, minuteVars, nativeVars, pageVars>>
notChartVars == <<tableVars, minuteVars, nativeVars, pageVars>>
notMinuteVars == <<tableVars, chartVars, nativeVars, pageVars>>
notNativeVars == <<tableVars, minuteVars, pageVars,
                   chartData, chartPc, yDomain, barProps, shape>>
notPageVars == <<tableVars, chartVars, minuteVars, nativeVars>>

\* ---------------------------------------- LatestPricesTable: aggregation
\* The guard without its !sides half: typeof null is 'object'.
IsNotObjectTypeofOnly(sides) == sides.kind = "string"

\* !sides || typeof sides !== 'object'
IsNotObject(sides) == sides.kind # "object"

\* Object.entries(null) throws a TypeError.
ObjectEntriesThrows(sides) == sides.kind = "null"

\* Object.entries(sides).filter(([, record]) => record !== null)
SideEntries(sides) ==
    IF sides.kind = "object"
    THEN {s \in Sides : IsSome(sides[s])}
    ELSE {}

\* buyRecord || sellRecord || defaultRecord
TrackingRecord(sides) ==
    IF IsSome(sides.buy) THEN sides.buy
    ELSE IF IsSome(sides.sell) THEN sides.sell
    ELSE sides.default

\* BothBranch without the averaging: the buy price alone is shown.
BothBranchBuyOnly(buyRecord, sellRecord) ==
    LET buyPrice == Number(buyRecord.price)
        sellPrice == Number(sellRecord.price)
    IN  [averagePrice |-> buyPrice,
         hasSides |-> TRUE,
         buyPrice |-> Some(buyPrice),
         sellPrice |-> Some(sellPrice)]

\* if (buyRecord && sellRecord): the average of the two prices.
BothBranch(buyRecord, sellRecord) ==
    LET buyPrice == Number(buyRecord.price)
        sellPrice == Number(sellRecord.price)
    IN  [averagePrice |-> Half(Add(buyPrice, sellPrice)),
         hasSides |-> TRUE,
         buyPrice |-> Some(buyPrice),
         sellPrice |-> Some(sellPrice)]

\* else if (defaultRecord): the default price, no sides.
DefaultBranch(defaultRecord) ==
    [averagePrice |-> Number(defaultRecord.price),
     hasSides |-> FALSE,
     buyPrice |-> None,
     sellPrice |-> None]

\* else if (buyRecord)
BuyBranch(buyRecord) ==
    LET averagePrice == Number(buyRecord.price)
    IN  [averagePrice |-> averagePrice,
         hasSides |-> TRUE,
         buyPrice |-> Some(averagePrice),
         sellPrice |-> None]

\* SellBranch filling the buy column instead of the sell column.
SellBranchAsBuy(sellRecord) ==
    LET averagePrice == Number(sellRecord.price)
    IN  [averagePrice |-> averagePrice,
         hasSides |-> TRUE,
         buyPrice |-> Some(averagePrice),
         sellPrice |-> None]

\* else if (sellRecord)
SellBranch(sellRecord) ==
    LET averagePrice == Number(sellRecord.price)
    IN  [averagePrice |-> averagePrice,
         hasSides |-> TRUE,
         buyPrice |-> None,
         sellPrice |-> Some(averagePrice)]

\* PriceBranch with the single-side branches tested before the default one.
PriceBranchSidesFirst(sides) ==
    IF IsSome(sides.buy) /\ IsSome(sides.sell)
    THEN Some(BothBranch(Get(sides.buy), Get(sides.sell)))
    ELSE IF IsSome(sides.buy) THEN Some(BuyBranch(Get(sides.buy)))
    ELSE IF IsSome(sides.sell) THEN Some(SellBranch(Get(sides.sell)))
    ELSE IF IsSome(sides.default) THEN Some(DefaultBranch(Get(sides.default)))
    ELSE None

\* PriceBranch without its last branch: a sell-only source falls through.
PriceBranchNoSell(sides) ==
    IF IsSome(sides.buy) /\ IsSome(sides.sell)
    THEN Some(BothBranch(Get(sides.buy), Get(sides.sell)))
    ELSE IF IsSome(sides.default) THEN Some(DefaultBranch(Get(sides.default)))
    ELSE IF IsSome(sides.buy) THEN Some(BuyBranch(Get(sides.buy)))
    ELSE None

\* The price branch of one forEach iteration: None when the callback returns
\* without a summary.
PriceBranch(sides) ==
    IF IsSome(sides.buy) /\ IsSome(sides.sell)
    THEN Some(BothBranch(Get(sides.buy), Get(sides.sell)))
    ELSE IF IsSome(sides.default) THEN Some(DefaultBranch(Get(sides.default)))
    ELSE IF IsSome(sides.buy) THEN Some(BuyBranch(Get(sides.buy)))
    ELSE IF IsSome(sides.sell) THEN Some(SellBranch(Get(sides.sell)))
    ELSE None

\* The tracking fields of the summary, read from trackingRecord.
Tracking(sides) ==
    LET t == Get(TrackingRecord(sides))
    IN  [timestamp |-> t.created_at,
         priceDirection |-> IF IsSome(t.price_direction)
                            THEN Get(t.price_direction) ELSE "none",
         rankChange |-> t.rank_change,
         sparkline7d |-> IF IsSome(t.sparkline_7d) THEN Get(t.sparkline_7d) ELSE <<>>,
         change1h |-> t.change_1h,
         change24h |-> t.change_24h,
         change7d |-> t.change_7d]

\* One forEach iteration: the summaries it pushes (none or one).
AggregateEntry(entry) ==
    LET sides == entry.sides
    IN  IF IsNotObject(sides) THEN <<>>
        ELSE IF SideEntries(sides) = {} THEN <<>>
        ELSE IF ~IsSome(PriceBranch(sides)) THEN <<>>
        ELSE LET p == Get(PriceBranch(sides))
                 t == Tracking(sides)
             IN  <<[source |-> entry.source,
                    averagePrice |-> p.averagePrice,
                    buyPrice |-> p.buyPrice,
                    sellPrice |-> p.sellPrice,
                    hasSides |-> p.hasSides,
                    timestamp |-> t.timestamp,
                    priceDirection |-> t.priceDirection,
                    rankChange |-> t.rankChange,
                    sparkline7d |-> t.sparkline7d,
                    change1h |-> t.change1h,
                    change24h |-> t.change24h,
                    change7d |-> t.change7d]>>

\* An iteration throws when an entry that passed the object guard reaches
\* Object.entries with a null side map.
EntryThrows(entry) == ~IsNotObject(entry.sides) /\ ObjectEntriesThrows(entry.sides)

RECURSIVE PushAll(_)
PushAll(payload) ==
    IF payload = <<>> THEN <<>>
    ELSE PushAll(SubSeq(payload, 1, Len(payload) - 1))
         \o AggregateEntry(payload[Len(payload)])

\* (a, b) => b.averagePrice - a.averagePrice, as Array.prototype.sort reads
\* it: negative, zero or positive, a NaN result counting as zero.
Comparator(a, b) == Sub(b.averagePrice, a.averagePrice)
SortOrder(a, b) ==
    LET c == Comparator(a, b)
    IN  IF c.nan THEN 0 ELSE IF c.v < 0 THEN -1 ELSE IF c.v > 0 THEN 1 ELSE 0

\* Insert x behind every element that does not sort after it.
Insert(sorted, x) ==
    LET k == Cardinality({i \in 1..Len(sorted) : SortOrder(sorted[i], x) <= 0})
    IN  SubSeq(sorted, 1, k) \o <<x>> \o SubSeq(sorted, k + 1, Len(sorted))

RECURSIVE StableSort(_)
StableSort(s) ==
    IF s = <<>> THEN <<>>
    ELSE Insert(StableSort(SubSeq(s, 1, Len(s) - 1)), s[Len(s)])

\* A comparator is consistent when "compares equal" is transitive on the
\* array (the other conditions hold for any numeric difference).
ConsistentComparator(s) ==
    \A i, j, k \in 1..Len(s) :
        (SortOrder(s[i], s[j]) = 0 /\ SortOrder(s[j], s[k]) = 0)
            => SortOrder(s[i], s[k]) = 0

Reorderings(s) ==
    {[i \in 1..Len(s) |-> s[p[i]]] :
        p \in {q \in [1..Len(s) -> 1..Len(s)] : \A i, j \in 1..Len(s) : q[i] = q[j] => i = j}}

\* sources.sort(...): the stable sort for a consistent comparator, an
\* implementation-defined order of the same elements otherwise.
SortResults(s) ==
    IF ConsistentComparator(s) THEN {StableSort(s)} ELSE Reorderings(s)

\* The values the useMemo callback can return for a data prop.
AggregateResults(d) ==
    IF ~IsSome(d) THEN {<<>>}
    ELSE IF \E i \in 1..Len(Get(d)) : EntryThrows(Get(d)[i]) THEN {<<>>}
    ELSE SortResults(PushAll(Get(d)))

\* ------------------------------------------- LatestPricesTable: rendering
Rank(index) == index + 1

\* aggregatedSources.map((source, index) => ...): indices are 0-based.
Rows(list) == [i \in 1..Len(list) |-> [rank |-> Rank(i - 1), source |-> list[i].source]]

MobileRows(list) == Rows(list)
DesktopRows(list) == Rows(list)

\* Object.values(null) throws a TypeError in the latestTimestamp memo.
LatestTimestampThrows(d) ==
    IsSome(d) /\ \E i \in 1..Len(Get(d)) : Get(d)[i].sides.kind = "null"

\* latestTimestamp: the latest created_at among the records of the payload,
\* null without one (the characters of a string side map carry none).
LatestTimestamp(d) ==
    LET stamps == IF ~IsSome(d) THEN {}
                  ELSE UNION {{Get(Get(d)[i].sides[side]).created_at :
                                    side \in SideEntries(Get(d)[i].sides)} :
                                i \in 1..Len(Get(d))}
    IN  IF stamps = {} THEN None
        ELSE Some(CHOOSE t \in stamps : \A u \in stamps : u <= t)

NoView ==
    [state |-> "none", mobile |-> <<>>, desktop |-> <<>>, latestTimestamp |-> None,
     message |-> None]

\* ------------------------------------------------- hour-candle payload
\* The strings a candle field may carry.
CandleStrings == {"1", "2", "3"}

LowStrings == {"1", "2"}
HighStrings == {"2", "3"}

\* The i-th candle of a series covers the i-th hour.  Its low is at most its
\* high, but open and close can arrive anywhere, inside or outside of them.
CandlePoints(i) ==
    {[bucket |-> i, open |-> o, high |-> h, low |-> l, close |-> c] :
        o \in CandleStrings, h \in HighStrings,
        l \in LowStrings, c \in CandleStrings}

\* The candles of a two-sided source: the buy side trades between 1 and 2,
\* the sell side between 2 and 3.
SideCandlePoints(side, i) ==
    LET strings == IF side = "buy" THEN {"1", "2"} ELSE {"2", "3"}
        low == IF side = "buy" THEN "1" ELSE "2"
        high == IF side = "buy" THEN "2" ELSE "3"
    IN  {[bucket |-> i, open |-> o, high |-> high, low |-> low, close |-> c] :
            o \in strings, c \in strings}

\* new Date(candle.bucket).getTime() / 1000: the seconds since the epoch of
\* an hour bucket.
UnixTime(bucket) == bucket * 3600

\* ------------------------------- CandlestickChart.tsx: processCandles
\* ProcessCandle widening high / low but leaving the candle's own open.
ProcessCandleKeepOpen(candle, processed) ==
    LET open == Number(candle.open)
        close == Number(candle.close)
        high0 == Number(candle.high)
        low0 == Number(candle.low)
        continue == Len(processed) > 0
    IN  [time |-> UnixTime(candle.bucket),
         open |-> open,
         high |-> IF continue THEN MathMax(high0, processed[Len(processed)].close) ELSE high0,
         low |-> IF continue THEN MathMin(low0, processed[Len(processed)].close) ELSE low0,
         close |-> close]

\* ProcessCandle widening high / low around the open of every candle, the
\* first one included.
ProcessCandleWidenFirst(candle, processed) ==
    LET open0 == Number(candle.open)
        close == Number(candle.close)
        continue == Len(processed) > 0
        open == IF continue THEN processed[Len(processed)].close ELSE open0
    IN  [time |-> UnixTime(candle.bucket),
         open |-> open,
         high |-> MathMax(Number(candle.high), open),
         low |-> MathMin(Number(candle.low), open),
         close |-> close]

\* ProcessCandle overriding the open without widening high / low.
ProcessCandleNoWiden(candle, processed) ==
    LET continue == Len(processed) > 0
    IN  [time |-> UnixTime(candle.bucket),
         open |-> IF continue THEN processed[Len(processed)].close
                  ELSE Number(candle.open),
         high |-> Number(candle.high),
         low |-> Number(candle.low),
         close |-> Number(candle.close)]

\* ProcessCandle widening high / low around the candle's own open, before the
\* open is overridden.
ProcessCandleWidenBeforeOverride(candle, processed) ==
    LET open0 == Number(candle.open)
        continue == Len(processed) > 0
    IN  [time |-> UnixTime(candle.bucket),
         open |-> IF continue THEN processed[Len(processed)].close ELSE open0,
         high |-> IF continue THEN MathMax(Number(candle.high), open0)
                  ELSE Number(candle.high),
         low |-> IF continue THEN MathMin(Number(candle.low), open0)
                 ELSE Number(candle.low),
         close |-> Number(candle.close)]

\* The candle pushed by iteration i (0-based) of the loop, given the candles
\* pushed so far.
ProcessCandle(candle, processed) ==
    LET open0 == Number(candle.open)
        close == Number(candle.close)
        high0 == Number(candle.high)
        low0 == Number(candle.low)
        continue == Len(processed) > 0
        open == IF continue THEN processed[Len(processed)].close ELSE open0
        high == IF continue THEN MathMax(high0, open) ELSE high0
        low == IF continue THEN MathMin(low0, open) ELSE low0
    IN  [time |-> UnixTime(candle.bucket),
         open |-> open, high |-> high, low |-> low, close |-> close]

RECURSIVE processCandles(_)
processCandles(candles) ==
    IF candles = <<>> THEN <<>>
    ELSE LET processed == processCandles(SubSeq(candles, 1, Len(candles) - 1))
         IN  Append(processed, ProcessCandle(candles[Len(candles)], processed))

NoHistory == None
SingleHistory(candles) ==
    [has_sides |-> FALSE, candles |-> Some(candles),
     buy_candles |-> None, sell_candles |-> None]

SidedHistory(buy, sell) ==
    [has_sides |-> TRUE, candles |-> None,
     buy_candles |-> Some(buy), sell_candles |-> Some(sell)]

EmptyProcessed == [buyData |-> <<>>, sellData |-> <<>>, singleData |-> <<>>]

\* ProcessedData with one accumulator for both sides: the sell sequence
\* continues from the last close of the buy sequence.
ProcessedDataSharedAccumulator(h) ==
    IF ~IsSome(h) THEN EmptyProcessed
    ELSE LET hist == Get(h)
         IN  IF hist.has_sides /\ IsSome(hist.buy_candles) /\ IsSome(hist.sell_candles)
             THEN LET buy == Get(hist.buy_candles)
                      all == processCandles(buy \o Get(hist.sell_candles))
                  IN  [buyData |-> SubSeq(all, 1, Len(buy)),
                       sellData |-> SubSeq(all, Len(buy) + 1, Len(all)),
                       singleData |-> <<>>]
             ELSE IF IsSome(hist.candles)
             THEN [buyData |-> <<>>, sellData |-> <<>>,
                   singleData |-> processCandles(Get(hist.candles))]
             ELSE EmptyProcessed

\* The processedData memo of the native chart.
ProcessedData(h) ==
    IF ~IsSome(h) THEN EmptyProcessed
    ELSE LET hist == Get(h)
         IN  IF hist.has_sides /\ IsSome(hist.buy_candles) /\ IsSome(hist.sell_candles)
             THEN [buyData |-> processCandles(Get(hist.buy_candles)),
                   sellData |-> processCandles(Get(hist.sell_candles)),
                   singleData |-> <<>>]
             ELSE IF IsSome(hist.candles)
             THEN [buyData |-> <<>>, sellData |-> <<>>,
                   singleData |-> processCandles(Get(hist.candles))]
             ELSE EmptyProcessed

\* ------------------------------ recharts CandlestickChart: formatCandles
\* toLocaleString('en-US', {month, day, hour}): the day and the hour of it.
TimeLabel(bucket) == [day |-> bucket \div 24, hour |-> bucket % 24]

\* FormatCandle with a candle green only when it closes above its open.
FormatCandleStrictGreen(candle, type, domainMin, domainMax) ==
    LET open == Number(candle.open)
        close == Number(candle.close)
        high == Number(candle.high)
        low == Number(candle.low)
        range == Sub(high, low)
    IN  [time |-> TimeLabel(candle.bucket),
         open |-> open, close |-> close, high |-> high, low |-> low,
         isGreen |-> Gt(close, open),
         type |-> type,
         mid |-> Half(Add(high, low)),
         range |-> IF range.nan \/ range.v = 0 THEN Num(Scale) ELSE range,
         bodyTop |-> MathMin(open, close),
         bodyBottom |-> MathMax(open, close),
         bodyHeight |-> MathAbs(Sub(close, open)),
         domainMin |-> domainMin,
         domainMax |-> domainMax]

FormatCandle(candle, type, domainMin, domainMax) ==
    LET open == Number(candle.open)
        close == Number(candle.close)
        high == Number(candle.high)
        low == Number(candle.low)
        range == Sub(high, low)
    IN  [time |-> TimeLabel(candle.bucket),
         open |-> open, close |-> close, high |-> high, low |-> low,
         isGreen |-> Geq(close, open),
         type |-> type,
         mid |-> Half(Add(high, low)),
         range |-> IF range.nan \/ range.v = 0 THEN Num(Scale) ELSE range,
         bodyTop |-> MathMin(open, close),
         bodyBottom |-> MathMax(open, close),
         bodyHeight |-> MathAbs(Sub(close, open)),
         domainMin |-> domainMin,
         domainMax |-> domainMax]

formatCandles(candles, type, domainMin, domainMax) ==
    [i \in 1..Len(candles) |-> FormatCandle(candles[i], type, domainMin, domainMax)]

RECURSIVE MinOf(_)
MinOf(s) == IF Len(s) = 1 THEN s[1] ELSE MathMin(s[1], MinOf(Tail(s)))
RECURSIVE MaxOf(_)
MaxOf(s) == IF Len(s) = 1 THEN s[1] ELSE MathMax(s[1], MaxOf(Tail(s)))

\* candles.flatMap(c => [Number(c.high), Number(c.low)])
RECURSIVE HighsAndLows(_)
HighsAndLows(candles) ==
    IF candles = <<>> THEN <<>>
    ELSE <<Number(candles[1].high), Number(candles[1].low)>> \o HighsAndLows(Tail(candles))

\* x * 0.95, x * 1.05, x * 0.05
Percent(a, pct) == IF a.nan THEN NaN ELSE Num((a.v * pct) \div 100)

EmptyFormatted ==
    [buyData |-> <<>>, sellData |-> <<>>, singleData |-> <<>>, allData |-> <<>>]

\* The {buyData, sellData, singleData, allData} memo of the recharts chart.
FormattedData(h) ==
    IF ~IsSome(h) THEN EmptyFormatted
    ELSE LET hist == Get(h)
             sided == hist.has_sides /\ IsSome(hist.buy_candles) /\ IsSome(hist.sell_candles)
             allValues == IF sided
                          THEN HighsAndLows(Get(hist.buy_candles) \o Get(hist.sell_candles))
                          ELSE IF IsSome(hist.candles) THEN HighsAndLows(Get(hist.candles))
                          ELSE <<>>
             domainMin == IF Len(allValues) > 0 THEN Percent(MinOf(allValues), 95) ELSE Num(0)
             domainMax == IF Len(allValues) > 0 THEN Percent(MaxOf(allValues), 105)
                          ELSE Num(1000 * Scale)
         IN  IF sided
             THEN LET buy == formatCandles(Get(hist.buy_candles), "buy", domainMin, domainMax)
                      sell == formatCandles(Get(hist.sell_candles), "sell", domainMin, domainMax)
                  IN  [buyData |-> buy, sellData |-> sell, singleData |-> <<>>,
                       allData |-> buy \o sell]
             ELSE IF IsSome(hist.candles)
             THEN LET single == formatCandles(Get(hist.candles), "default", domainMin, domainMax)
                  IN  [buyData |-> <<>>, sellData |-> <<>>, singleData |-> single,
                       allData |-> single]
             ELSE EmptyFormatted

\* The yDomain memo: ['auto', 'auto'] without data, else the observed
\* extremes padded by 5 % of their distance, with a floor of 0.
AutoDomain == None

RECURSIVE DataHighsAndLows(_)
DataHighsAndLows(allData) ==
    IF allData = <<>> THEN <<>>
    ELSE <<allData[1].high, allData[1].low>> \o DataHighsAndLows(Tail(allData))

YDomain(allData) ==
    IF Len(allData) = 0 THEN AutoDomain
    ELSE LET allValues == DataHighsAndLows(allData)
             min == MinOf(allValues)
             max == MaxOf(allValues)
             padding == Percent(Sub(max, min), 5)
         IN  Some(<<MathMax(Num(0), Sub(min, padding)), Add(max, padding)>>)

\* ------------------------------ recharts CandlestickChart: CandlestickShape
\* A vertical SVG coordinate: NaN, an infinity, or the fraction n / d of a
\* pixel with d > 0.
PxNaN == [k |-> "nan", n |-> 0, d |-> 1]
PxInf == [k |-> "inf", n |-> 0, d |-> 1]
PxNegInf == [k |-> "ninf", n |-> 0, d |-> 1]
Px(n, d) == [k |-> "fin", n |-> n, d |-> d]

\* a < b, a <= b: false as soon as one side is NaN.
PxLt(a, b) ==
    /\ a.k # "nan" /\ b.k # "nan"
    /\ \/ a.k = "ninf" /\ b.k # "ninf"
       \/ a.k # "inf" /\ b.k = "inf"
       \/ a.k = "fin" /\ b.k = "fin" /\ a.n * b.d < b.n * a.d
PxLeq(a, b) ==
    /\ a.k # "nan" /\ b.k # "nan"
    /\ \/ a.k = "ninf"
       \/ b.k = "inf"
       \/ a.k = "fin" /\ b.k = "fin" /\ a.n * b.d <= b.n * a.d
PxMin(a, b) == IF a.k = "nan" \/ b.k = "nan" THEN PxNaN ELSE IF PxLt(b, a) THEN b ELSE a
PxMax(a, b) == IF a.k = "nan" \/ b.k = "nan" THEN PxNaN ELSE IF PxLt(a, b) THEN b ELSE a
\* Math.abs(a - b)
PxAbsDiff(a, b) ==
    IF a.k = "nan" \/ b.k = "nan" THEN PxNaN
    ELSE IF a.k = "fin" /\ b.k = "fin"
    THEN LET n == a.n * b.d - b.n * a.d
         IN  Px(IF n < 0 THEN 0 - n ELSE n, a.d * b.d)
    ELSE IF a.k = b.k THEN PxNaN
    ELSE PxInf

\* ValueY with the offset subtracted from y instead of added.
ValueYUpward(y, height, high, value, barRange) ==
    IF high.nan \/ value.nan \/ barRange.nan THEN PxNaN
    ELSE LET num == height * (high.v - value.v)
             den == barRange.v
         IN  IF den = 0
             THEN IF num = 0 THEN PxNaN ELSE IF num > 0 THEN PxNegInf ELSE PxInf
             ELSE IF den > 0 THEN Px(y * den - num, den)
             ELSE Px(num - y * den, 0 - den)

\* ValueY dividing by high, as if the bar always started at 0.
ValueYFromZero(y, height, high, value, barRange) ==
    IF high.nan \/ value.nan \/ barRange.nan THEN PxNaN
    ELSE LET num == height * (high.v - value.v)
             den == high.v
         IN  IF den = 0
             THEN IF num = 0 THEN PxNaN ELSE IF num > 0 THEN PxInf ELSE PxNegInf
             ELSE IF den > 0 THEN Px(y * den + num, den)
             ELSE Px(0 - (y * den + num), 0 - den)

\* y + (height * (high - value) / barRange): a division by zero gives an
\* infinity, or NaN for 0 / 0.
ValueY(y, height, high, value, barRange) ==
    IF high.nan \/ value.nan \/ barRange.nan THEN PxNaN
    ELSE LET num == height * (high.v - value.v)
             den == barRange.v
         IN  IF den = 0
             THEN IF num = 0 THEN PxNaN ELSE IF num > 0 THEN PxInf ELSE PxNegInf
             ELSE IF den > 0 THEN Px(y * den + num, den)
             ELSE Px(0 - (y * den + num), 0 - den)

\* The fill of the body: teal (buy, default) or amber (sell) for a green
\* candle, red otherwise.
BodyColor(type, isGreen) ==
    IF type = "buy" THEN (IF isGreen THEN "#26a69a" ELSE "#ef5350")
    ELSE IF type = "sell" THEN (IF isGreen THEN "#ffa726" ELSE "#ef5350")
    ELSE (IF isGreen THEN "#26a69a" ELSE "#ef5350")

\* What CandlestickShape returns for a bar that recharts lays out at y with
\* the given height: null, or the two optional wick lines and the body
\* rectangle (vertical coordinates only; x and width do not enter them).
\* formatCandles always sets payload.domainMin, so domainBase is that value.
CandlestickShape(props) ==
    IF ~IsSome(props.payload) THEN None
    ELSE LET payload == Get(props.payload)
             y == props.y
             height == props.height
             high == payload.high
             range == Sub(high, payload.low)
         IN  IF ~range.nan /\ range.v = 0 THEN None
             ELSE LET domainBase == payload.domainMin
                      barRange == Sub(high, domainBase)
                      lowY == ValueY(y, height, high, payload.low, barRange)
                      openY == ValueY(y, height, high, payload.open, barRange)
                      closeY == ValueY(y, height, high, payload.close, barRange)
                      bodyTopY == PxMin(openY, closeY)
                      bodyBottomY == PxMax(openY, closeY)
                      bodyHeightPx == PxMax(Px(2, 1), PxAbsDiff(closeY, openY))
                  IN  Some([lowY |-> lowY, openY |-> openY, closeY |-> closeY,
                            bodyBottomY |-> bodyBottomY,
                            upperWick |-> IF PxLt(openY, Px(y, 1)) \/ PxLt(closeY, Px(y, 1))
                                          THEN Some([y1 |-> Px(y, 1), y2 |-> bodyTopY])
                                          ELSE None,
                            lowerWick |-> IF PxLt(lowY, openY) \/ PxLt(lowY, closeY)
                                          THEN Some([y1 |-> bodyBottomY, y2 |-> lowY])
                                          ELSE None,
                            rect |-> [y |-> bodyTopY, height |-> bodyHeightPx,
                                      fill |-> BodyColor(payload.type, payload.isGreen)]])

\* The hour candles the chart is drawn for: regular ones, one whose range is
\* zero, one that opens above its high, one that closes below its low, and
\* one of negative prices.
BarCandles ==
    {<<"1", "3", "1", "2">>, <<"3", "4", "1", "2">>, <<"2", "3", "1", "2">>,
     <<"2", "2", "2", "2">>, <<"3", "2", "1", "1">>, <<"2", "3", "2", "1">>,
     <<"-20", "-19", "-20", "-19">>}
BarCandlePoints(i) ==
    {[bucket |-> i, open |-> c[1], high |-> c[2], low |-> c[3], close |-> c[4]] :
        c \in BarCandles}

\* The top and the height, in pixels, recharts lays a bar out with.
BarTops == {0, 10}
BarHeights == {0, 3, 100}

\* ------------------- CandlestickChart.tsx: charts, refs and effects
\* The hour-candle responses the native chart is given: one-sided with
\* candles (two different ones) or without, two-sided with both sides (two
\* different ones) or with buy candles only, and has_sides with only candles.
CandleA == [bucket |-> 1, open |-> "1", high |-> "2", low |-> "1", close |-> "2"]
CandleB == [bucket |-> 1, open |-> "2", high |-> "3", low |-> "2", close |-> "3"]
NativeHistories ==
    {SingleHistory(<<CandleA>>), SingleHistory(<<CandleB>>), SingleHistory(<<>>),
     SidedHistory(<<CandleA>>, <<CandleB>>), SidedHistory(<<CandleB>>, <<CandleA>>),
     SidedHistory(<<CandleA>>, <<>>),
     [has_sides |-> TRUE, candles |-> Some(<<CandleA>>),
      buy_candles |-> None, sell_candles |-> None]}

\* history?.has_sides: undefined, true or false.
HasSides(h) == IF ~IsSome(h) THEN "undefined" ELSE IF Get(h).has_sides THEN "true" ELSE "false"

\* What CandlestickChart returns: the first conditional return that applies,
\* else the two child charts, else the container of the single chart.
NativeViewOf(props, h, pd) ==
    IF props.isLoading THEN "loading"
    ELSE IF IsSome(props.error) THEN "error"
    ELSE IF ~(Len(pd.buyData) > 0 \/ Len(pd.sellData) > 0 \/ Len(pd.singleData) > 0)
    THEN "empty"
    ELSE IF HasSides(h) = "true" /\ Len(pd.buyData) > 0 /\ Len(pd.sellData) > 0
    THEN "two"
    ELSE "single"

\* The refs of the three component instances (a ref is null or a handle), and
\* what React remembers of each effect: whether it ran, the dependencies of
\* the last render and the listener its cleanup closes over, if it returned
\* a cleanup.
Instances == {"single", "buy", "sell"}
NoRefs == [o \in Instances |-> [chartRef |-> None, seriesRef |-> None]]
NoEffect == [ran |-> FALSE, deps |-> None, cleanup |-> None]
NoEffects == [init |-> NoEffect, data |-> NoEffect, buy |-> NoEffect, sell |-> NoEffect]

\* A handle is a number no live chart and no ref holds: a chart is a number,
\* a series the pair of its chart and a number.
UsedCharts(w) ==
    {c.id : c \in w.charts}
        \cup {Get(w.refs[o].chartRef) : o \in {i \in Instances : IsSome(w.refs[i].chartRef)}}
        \cup {Get(w.refs[o].seriesRef)[1] : o \in {i \in Instances : IsSome(w.refs[i].seriesRef)}}
FreshChart(w) ==
    CHOOSE n \in 1..(Cardinality(UsedCharts(w)) + 1) :
        n \notin UsedCharts(w) /\ \A m \in 1..(n - 1) : m \in UsedCharts(w)
UsedSeries(w, chart) ==
    UNION {{x.id[2] : x \in c.series} : c \in {d \in w.charts : d.id = chart}}
        \cup {Get(w.refs[o].seriesRef)[2] :
                o \in {i \in Instances : IsSome(w.refs[i].seriesRef)
                                          /\ Get(w.refs[i].seriesRef)[1] = chart}}
FreshSeries(w, chart) ==
    <<chart, CHOOSE n \in 1..(Cardinality(UsedSeries(w, chart)) + 1) :
                n \notin UsedSeries(w, chart)
                    /\ \A m \in 1..(n - 1) : m \in UsedSeries(w, chart)>>

\* createChart(container, ...) for instance owner, with chartRef.current set
\* to it.
CreateChart(w, owner) ==
    LET chart == FreshChart(w)
    IN  [w EXCEPT !.charts = @ \cup {[id |-> chart, owner |-> owner, series |-> {}]},
                  !.refs[owner].chartRef = Some(chart)]

\* chart.addCandlestickSeries(...) and series.setData(data), with the series
\* ref of the instance set to the new series.
AddSeries(w, owner, chart, seriesData) ==
    LET series == FreshSeries(w, chart)
    IN  [w EXCEPT !.charts = {IF c.id = chart
                              THEN [c EXCEPT !.series = @ \cup {[id |-> series,
                                                                 data |-> seriesData]}]
                              ELSE c : c \in @},
                  !.refs[owner].seriesRef = Some(series)]

\* chart.removeSeries(series): lightweight-charts throws for a series that is
\* none of the chart's.
RemoveSeries(w, chart, series) ==
    IF \E c \in w.charts : c.id = chart /\ \E x \in c.series : x.id = series
    THEN [w EXCEPT !.charts = {IF c.id = chart
                               THEN [c EXCEPT !.series = {x \in @ : x.id # series}]
                               ELSE c : c \in @}]
    ELSE [w EXCEPT !.threw = TRUE]

\* window.addEventListener("resize", handleResize): the listener of the
\* effect run that created chart.
AddListener(w, chart) == [w EXCEPT !.listeners = @ \cup {chart}]

\* EffectCleanup leaving the resize listener registered.
EffectCleanupKeepingListener(w, owner, listener) ==
    IF IsSome(w.refs[owner].chartRef)
    THEN [w EXCEPT !.charts = {c \in @ : c.id # Get(w.refs[owner].chartRef)},
                   !.refs[owner].chartRef = None]
    ELSE w

\* The cleanup the chart-creating effects return: the listener is removed,
\* the chart in chartRef, if any, is removed and chartRef set to null.
EffectCleanup(w, owner, listener) ==
    LET unlistened == [w EXCEPT !.listeners = @ \ {listener}]
    IN  IF IsSome(w.refs[owner].chartRef)
        THEN [unlistened EXCEPT !.charts = {c \in @ : c.id # Get(w.refs[owner].chartRef)},
                                !.refs[owner].chartRef = None]
        ELSE unlistened

\* The body of the init effect of CandlestickChart: the world after it and
\* the listener of the cleanup it returns, if it returns one.
InitEffect(w, props, h, shown) ==
    IF HasSides(h) = "true" THEN [world |-> w, cleanup |-> None]
    ELSE IF shown # "single" \/ props.isLoading \/ IsSome(props.error)
    THEN [world |-> w, cleanup |-> None]
    ELSE LET created == CreateChart(w, "single")
             chart == Get(created.refs["single"].chartRef)
         IN  [world |-> AddListener(created, chart), cleanup |-> Some(chart)]

\* The body of the data effect of CandlestickChart.
DataEffect(w, pd) ==
    IF ~IsSome(w.refs["single"].chartRef) \/ Len(pd.singleData) = 0 THEN w
    ELSE LET chart == Get(w.refs["single"].chartRef)
             cleared == IF IsSome(w.refs["single"].seriesRef)
                        THEN [RemoveSeries(w, chart, Get(w.refs["single"].seriesRef))
                                EXCEPT !.refs["single"].seriesRef = None]
                        ELSE w
         IN  IF cleared.threw THEN [w EXCEPT !.threw = TRUE]
             ELSE AddSeries(cleared, "single", chart, pd.singleData)

\* The body of the effect of BuyChartComponent / SellChartComponent, whose
\* container is always rendered.
ChildEffect(w, owner, seriesData) ==
    IF Len(seriesData) = 0 THEN [world |-> w, cleanup |-> None]
    ELSE LET created == CreateChart(w, owner)
             chart == Get(created.refs[owner].chartRef)
             filled == AddSeries(created, owner, chart, seriesData)
         IN  [world |-> AddListener(filled, chart), cleanup |-> Some(chart)]

\* The dependencies of the effects for a render with these props.
InitDeps(props, h) == Some(<<props.isLoading, props.error, HasSides(h)>>)
\* processedData and the data props of the children are rebuilt exactly when
\* history is another object.
DataDeps(h) == Some(h)

Changed(effect, deps) == ~effect.ran \/ effect.deps # deps

\* The cleanup of effect e, if it has one and it is due.
CleanedUp(w, e, owner, due) ==
    IF due /\ IsSome(e.cleanup) THEN EffectCleanup(w, owner, Get(e.cleanup)) ELSE w

\* The refs of an unmounted child are gone with its instance.
Forget(w, owner, gone) == IF gone THEN [w EXCEPT !.refs[owner] = NoRefs[owner]] ELSE w

\* React flushes the effects of one commit: first the cleanups of the effects
\* whose dependencies changed or whose component was unmounted, children
\* before the parent, then the bodies in the same order.
Flush(w, e, props, h, pd, shown) ==
    LET mounted == shown = "two"
        buyDue == e.buy.ran /\ (~mounted \/ e.buy.deps # DataDeps(h))
        sellDue == e.sell.ran /\ (~mounted \/ e.sell.deps # DataDeps(h))
        initDue == Changed(e.init, InitDeps(props, h))
        dataDue == Changed(e.data, DataDeps(h))
        w1 == Forget(CleanedUp(w, e.buy, "buy", buyDue), "buy", ~mounted)
        w2 == Forget(CleanedUp(w1, e.sell, "sell", sellDue), "sell", ~mounted)
        w3 == CleanedUp(w2, e.init, "single", e.init.ran /\ initDue)
        buyRuns == mounted /\ (~e.buy.ran \/ buyDue)
        sellRuns == mounted /\ (~e.sell.ran \/ sellDue)
        r4 == IF buyRuns THEN ChildEffect(w3, "buy", pd.buyData)
              ELSE [world |-> w3, cleanup |-> e.buy.cleanup]
        r5 == IF sellRuns THEN ChildEffect(r4.world, "sell", pd.sellData)
              ELSE [world |-> r4.world, cleanup |-> e.sell.cleanup]
        r6 == IF initDue THEN InitEffect(r5.world, props, h, shown)
              ELSE [world |-> r5.world, cleanup |-> e.init.cleanup]
        w7 == IF dataDue THEN DataEffect(r6.world, pd) ELSE r6.world
    IN  [world |-> w7,
         effects |->
            [init |-> [ran |-> TRUE, deps |-> InitDeps(props, h), cleanup |-> r6.cleanup],
             data |-> [ran |-> TRUE, deps |-> DataDeps(h), cleanup |-> None],
             buy |-> IF mounted
                     THEN [ran |-> TRUE, deps |-> DataDeps(h), cleanup |-> r4.cleanup]
                     ELSE NoEffect,
             sell |-> IF mounted
                      THEN [ran |-> TRUE, deps |-> DataDeps(h), cleanup |-> r5.cleanup]
                      ELSE NoEffect]]

\* Unmounting CandlestickChart and its children runs every cleanup.
Teardown(w, e) ==
    LET w1 == CleanedUp(w, e.buy, "buy", TRUE)
        w2 == CleanedUp(w1, e.sell, "sell", TRUE)
    IN  CleanedUp(w2, e.init, "single", TRUE)

\* --------------------------------------------------------- MinuteChart
MaxPoints == 2      \* points in one minute history

\* toLocaleString('en-US', {month, day, hour, minute}) of a minute bucket.
MinuteLabel(bucket) ==
    [day |-> bucket \div 1440, hour |-> (bucket \div 60) % 24, minute |-> bucket % 60]

\* The i-th point of a minute history.  A price field is absent, a decimal
\* string, an empty string or a string that is no number; the backend may
\* send an average_price along with the two sides.
MinutePoints(has_sides, i) ==
    IF has_sides
    THEN {[bucket |-> i, buy_price |-> b, sell_price |-> s, average_price |-> a] :
            b \in {None, Some("1"), Some("")}, s \in {None, Some("2")},
            a \in {None, Some("3")}}
    ELSE {[bucket |-> i, buy_price |-> b, sell_price |-> None, average_price |-> a] :
            b \in {None, Some("1")}, a \in {None, Some("3"), Some(""), Some("abc")}}

\* if (point.field): a field that is present and not the empty string.
Truthy(field) == IsSome(field) /\ Get(field) # ""

\* ShapePoint setting price from average_price whatever has_sides is.
ShapePointAlwaysPrice(has_sides, point) ==
    [time |-> MinuteLabel(point.bucket),
     buy |-> IF has_sides /\ Truthy(point.buy_price)
             THEN Some(Number(Get(point.buy_price))) ELSE None,
     sell |-> IF has_sides /\ Truthy(point.sell_price)
              THEN Some(Number(Get(point.sell_price))) ELSE None,
     price |-> IF Truthy(point.average_price)
               THEN Some(Number(Get(point.average_price))) ELSE None]

\* The element history.points.map builds for one point.
ShapePoint(has_sides, point) ==
    [time |-> MinuteLabel(point.bucket),
     buy |-> IF has_sides /\ Truthy(point.buy_price)
             THEN Some(Number(Get(point.buy_price))) ELSE None,
     sell |-> IF has_sides /\ Truthy(point.sell_price)
              THEN Some(Number(Get(point.sell_price))) ELSE None,
     price |-> IF ~has_sides /\ Truthy(point.average_price)
               THEN Some(Number(Get(point.average_price))) ELSE None]

\* The data memo of MinuteChart.
MinuteData(h) ==
    IF ~IsSome(h) THEN <<>>
    ELSE [i \in 1..Len(Get(h).points) |-> ShapePoint(Get(h).has_sides, Get(h).points[i])]

NoMinuteView == [state |-> "none", lines |-> <<>>]

\* What MinuteChart returns: the first conditional return that applies, else
\* the line chart with its Line elements.
MinuteViewOf(props, chart) ==
    IF props.isLoading THEN [NoMinuteView EXCEPT !.state = "loading"]
    ELSE IF IsSome(props.error) THEN [NoMinuteView EXCEPT !.state = "error"]
    ELSE IF Len(chart) = 0 THEN [NoMinuteView EXCEPT !.state = "empty"]
    ELSE [state |-> "chart",
          lines |-> IF IsSome(props.history) /\ Get(props.history).has_sides
                    THEN <<"buy", "sell">> ELSE <<"price">>]

\* ------------------------------------- PriceHistoryChart: interval switch
\* The values of the source prop: the pages of the repository pass none
\* (undefined); the declared interface takes a source name.
PageSources == {"undefined", "milli"}

Intervals == {"minute", "hour"}

\* The key of the minute fetch with the condition dropped.
MinuteKeyAlways(i, s) == Some(<<"minute-history", s>>)

\* The key of the first useSWR call: null unless the interval is minute.
MinuteKey(i, s) == IF i = "minute" THEN Some(<<"minute-history", s>>) ELSE None

\* The key of the second useSWR call: null unless the interval is hour.
HourKey(i, s) == IF i = "hour" THEN Some(<<"hour-candles", s>>) ELSE None

\* Every key the two calls can produce.
HistoryKeys == {<<"minute-history", s>> : s \in PageSources}
                 \cup {<<"hour-candles", s>> : s \in PageSources}

\* What the fetcher of a key resolves to: the history of that interval and
\* source; and what it rejects with.
Response(key) == [kind |-> key[1], source |-> key[2]]
Failure(key) == [kind |-> key[1], source |-> key[2], message |-> "failed"]

NoCacheEntry == [data |-> None, error |-> None]

\* What useSWR returns for a key: nothing for the null key, otherwise the
\* cached data and error of the key, loading while the key has neither.
UseSWR(key, cache) ==
    IF ~IsSome(key) THEN [data |-> None, error |-> None, isLoading |-> FALSE]
    ELSE LET entry == cache[Get(key)]
         IN  [data |-> entry.data, error |-> entry.error,
              isLoading |-> ~IsSome(entry.data) /\ ~IsSome(entry.error)]

\* The element PriceHistoryChart renders below its header.
ChartElement(i, minute, hour) ==
    IF i = "minute"
    THEN [component |-> "MinuteChart", history |-> minute.data,
          isLoading |-> minute.isLoading, error |-> minute.error]
    ELSE [component |-> "CandlestickChart", history |-> hour.data,
          isLoading |-> hour.isLoading, error |-> hour.error]

NoElement == [component |-> "none", history |-> None,
              isLoading |-> FALSE, error |-> None]

\* ----------------------------------------------------------- behaviours
TableInit ==
    /\ data = None
    /\ isLoading = FALSE
    /\ error = None
    /\ aggregatedSources = <<>>
    /\ view = NoView
    /\ pc = "fetching"

ChartInit ==
    /\ history = NoHistory
    /\ processedData = EmptyProcessed
    /\ chartData = EmptyFormatted
    /\ yDomain = AutoDomain
    /\ barProps = None
    /\ shape = None
    /\ chartPc = "fetching"

MinuteInit ==
    /\ minuteProps = [history |-> None, isLoading |-> FALSE, error |-> None]
    /\ minuteData = <<>>
    /\ minuteView = NoMinuteView

\* CandlestickChart is mounted while the first fetch of the hour candles is
\* under way: no chart, no listener, no effect has run.
NativeInit ==
    /\ hourProps = [isLoading |-> TRUE, error |-> None]
    /\ phase = "render"
    /\ nativeView = "none"
    /\ refs = NoRefs
    /\ charts = {}
    /\ listeners = {}
    /\ effects = NoEffects

\* PriceHistoryChart before its first render: the page starts on the hour
\* interval and passes no source; nothing is cached yet.
PageInit ==
    /\ interval = "hour"
    /\ chartSource = "undefined"
    /\ swrCache = [k \in HistoryKeys |-> NoCacheEntry]
    /\ inFlight = {}
    /\ minuteKey = None
    /\ hourKey = None
    /\ child = NoElement
    /\ pagePc = "dirty"

OtherInit == MinuteInit /\ NativeInit /\ PageInit

Init == TableInit /\ ChartInit /\ OtherInit

\* The fetch layer assembles the snapshot: one more source entry of the
\* latest_prices map, in the order Object.entries will iterate it.
ReceiveEntry ==
    /\ pc = "fetching"
    /\ LET received == IF IsSome(data) THEN Get(data) ELSE <<>>
       IN  /\ Len(received) < MaxSources
           /\ \E e \in Entries(Len(received) + 1) :
                data' = Some(Append(received, e))
    /\ UNCHANGED <<isLoading, error, aggregatedSources, view, pc>>
    /\ UNCHANGED notTableVars

\* What one render shows: nothing when the latestTimestamp memo throws, else
\* the first of the conditional returns that applies, else the two row lists.
ViewOf(d, loading, err, list) ==
    IF LatestTimestampThrows(d) THEN [NoView EXCEPT !.state = "crashed"]
    ELSE IF loading THEN [NoView EXCEPT !.state = "loading"]
    ELSE IF IsSome(err) THEN [NoView EXCEPT !.state = "error", !.message = err]
    ELSE IF Len(list) = 0 THEN [NoView EXCEPT !.state = "empty"]
    ELSE [state |-> "table",
          mobile |-> MobileRows(list),
          desktop |-> DesktopRows(list),
          latestTimestamp |-> LatestTimestamp(d),
          message |-> None]

\* Render keeping the summaries of the earlier render in front of the new
\* ones.
RenderKeepingEarlier ==
    /\ pc = "fetching"
    /\ \E list \in AggregateResults(data) :
        /\ aggregatedSources' = aggregatedSources \o list
        /\ view' = ViewOf(data, isLoading, error, aggregatedSources \o list)
    /\ pc' = "rendered"
    /\ UNCHANGED <<data, isLoading, error>>
    /\ UNCHANGED notTableVars

\* One render of LatestPricesTable with the props (data, isLoading, error):
\* the aggregatedSources memo is recomputed, then the latestTimestamp memo,
\* then the view is chosen.
Render ==
    /\ pc = "fetching"
    /\ \E list \in AggregateResults(data) :
        /\ aggregatedSources' = list
        /\ view' = ViewOf(data, isLoading, error, list)
    /\ pc' = "rendered"
    /\ UNCHANGED <<data, isLoading, error>>
    /\ UNCHANGED notTableVars

Next == ReceiveEntry \/ Render

Spec == Init /\ [][Next]_vars

\* The snapshots the periodic refresh delivers: per source a null side map,
\* a buy and a sell quote, or a default quote that is no number.
RefreshEntries(k) ==
    {[source |-> SourceNames[k], sides |-> m] :
        m \in {[kind |-> "null"],
                [kind |-> "object",
                 buy |-> Some(QuoteRecord(k, "buy", "1")),
                 sell |-> Some(QuoteRecord(k, "sell", "2")),
                 default |-> None],
                [kind |-> "object", buy |-> None, sell |-> None,
                 default |-> Some(QuoteRecord(k, "default", "abc"))]}}

RECURSIVE RefreshSnapshots(_)
RefreshSnapshots(n) ==
    IF n = 0 THEN {<<>>}
    ELSE LET shorter == RefreshSnapshots(n - 1)
         IN  shorter \cup {Append(d, e) : d \in {x \in shorter : Len(x) = n - 1},
                                           e \in RefreshEntries(n)}

\* Before the first response useSWR reports isLoading with no data.
RefreshInit ==
    /\ data = None
    /\ isLoading = TRUE
    /\ error = None
    /\ aggregatedSources = <<>>
    /\ view = NoView
    /\ pc = "fetching"
    /\ ChartInit
    /\ OtherInit

\* useSWR delivers the snapshot of a successful (re)fetch: the component is
\* rendered again with it.
FetchSucceeds ==
    /\ pc = "rendered"
    /\ view.state # "crashed"
    /\ \E d \in RefreshSnapshots(MaxSources) : data' = Some(d)
    /\ isLoading' = FALSE
    /\ error' = None
    /\ pc' = "fetching"
    /\ UNCHANGED <<aggregatedSources, view>>
    /\ UNCHANGED notTableVars

\* useSWR reports a failed (re)fetch: the error is set and the data of the
\* last successful fetch, if any, stays.
FetchFails ==
    /\ pc = "rendered"
    /\ view.state # "crashed"
    /\ error' = Some("Network Error")
    /\ isLoading' = FALSE
    /\ pc' = "fetching"
    /\ UNCHANGED <<data, aggregatedSources, view>>
    /\ UNCHANGED notTableVars

NextRefresh == FetchSucceeds \/ FetchFails \/ Render

SpecRefresh == RefreshInit /\ [][NextRefresh]_vars

\* The fetch layer assembles the hour-candle response of a single-sided
\* source: one more candle, in chronological order.
ReceiveCandle ==
    /\ chartPc = "fetching"
    /\ LET received == IF IsSome(history) THEN Get(Get(history).candles) ELSE <<>>
       IN  /\ Len(received) < MaxCandles
           /\ \E c \in CandlePoints(Len(received) + 1) :
                history' = Some(SingleHistory(Append(received, c)))
    /\ UNCHANGED <<processedData, chartData, chartPc, yDomain, barProps, shape>>
    /\ UNCHANGED notChartVars

\* One render of the native (lightweight-charts) CandlestickChart.
RenderNative ==
    /\ chartPc = "fetching"
    /\ processedData' = ProcessedData(history)
    /\ chartPc' = "native"
    /\ UNCHANGED <<history, chartData, yDomain, barProps, shape>>
    /\ UNCHANGED notChartVars

\* One render of the recharts CandlestickChart.
RenderRecharts ==
    /\ chartPc = "fetching"
    /\ chartData' = FormattedData(history)
    /\ yDomain' = YDomain(chartData'.allData)
    /\ chartPc' = "recharts"
    /\ UNCHANGED <<history, processedData, barProps, shape>>
    /\ UNCHANGED notChartVars

NextCandles == ReceiveCandle \/ RenderNative \/ RenderRecharts

SpecCandles == Init /\ [][NextCandles]_vars

\* The fetch layer assembles the hour-candle response of a two-sided source:
\* one more buy candle, or one more sell candle.
ReceiveSideCandle(side) ==
    /\ chartPc = "fetching"
    /\ LET buy == IF IsSome(history) THEN Get(Get(history).buy_candles) ELSE <<>>
           sell == IF IsSome(history) THEN Get(Get(history).sell_candles) ELSE <<>>
           received == IF side = "buy" THEN buy ELSE sell
       IN  /\ Len(received) < MaxCandles
           /\ \E c \in SideCandlePoints(side, Len(received) + 1) :
                history' = Some(IF side = "buy"
                                THEN SidedHistory(Append(buy, c), sell)
                                ELSE SidedHistory(buy, Append(sell, c)))
    /\ UNCHANGED <<processedData, chartData, chartPc, yDomain, barProps, shape>>
    /\ UNCHANGED notChartVars

ReceiveBuyCandle == ReceiveSideCandle("buy")
ReceiveSellCandle == ReceiveSideCandle("sell")

NextSided == ReceiveBuyCandle \/ ReceiveSellCandle \/ RenderNative

SpecSided == Init /\ [][NextSided]_vars

\* The fetch layer assembles the hour-candle response the bars are drawn
\* for: one more candle of a single-sided source.
ReceiveBarCandle ==
    /\ chartPc = "fetching"
    /\ LET received == IF IsSome(history) THEN Get(Get(history).candles) ELSE <<>>
       IN  /\ Len(received) < MaxCandles
           /\ \E c \in BarCandlePoints(Len(received) + 1) :
                history' = Some(SingleHistory(Append(received, c)))
    /\ UNCHANGED <<processedData, chartData, chartPc, yDomain, barProps, shape>>
    /\ UNCHANGED notChartVars

\* recharts draws one bar of the rendered chart: it calls CandlestickShape
\* with the bar's layout and the bar's datum as payload.
DrawShape ==
    /\ chartPc = "recharts"
    /\ \E i \in 1..Len(chartData.allData), y \in BarTops, height \in BarHeights :
        LET props == [y |-> y, height |-> height, payload |-> Some(chartData.allData[i])]
        IN  /\ barProps' = Some(props)
            /\ shape' = CandlestickShape(props)
    /\ UNCHANGED <<history, processedData, chartData, chartPc, yDomain>>
    /\ UNCHANGED notChartVars

NextShapes == ReceiveBarCandle \/ RenderRecharts \/ DrawShape

SpecShapes == Init /\ [][NextShapes]_vars

\* The fetch layer assembles the minute history: one more point of a
\* two-sided or of a one-sided source.
ReceiveMinutePoint ==
    /\ minuteView.state = "none"
    /\ \E has_sides \in BOOLEAN :
        LET received == IF IsSome(minuteProps.history)
                        THEN Get(minuteProps.history).points ELSE <<>>
        IN  /\ IsSome(minuteProps.history) => Get(minuteProps.history).has_sides = has_sides
            /\ Len(received) < MaxPoints
            /\ \E point \in MinutePoints(has_sides, Len(received) + 1) :
                minuteProps' = [minuteProps EXCEPT !.history =
                    Some([has_sides |-> has_sides, points |-> Append(received, point)])]
    /\ UNCHANGED <<minuteData, minuteView>>
    /\ UNCHANGED notMinuteVars

\* The fetch of the minute history fails: MinuteChart gets the error.
MinuteFetchFails ==
    /\ minuteView.state = "none"
    /\ minuteProps.error = None
    /\ minuteProps' = [minuteProps EXCEPT !.error = Some("Network Error")]
    /\ UNCHANGED <<minuteData, minuteView>>
    /\ UNCHANGED notMinuteVars

\* One render of MinuteChart.
RenderMinute ==
    /\ minuteView.state = "none"
    /\ minuteData' = MinuteData(minuteProps.history)
    /\ minuteView' = MinuteViewOf(minuteProps, minuteData')
    /\ UNCHANGED minuteProps
    /\ UNCHANGED notMinuteVars

NextMinute == ReceiveMinutePoint \/ MinuteFetchFails \/ RenderMinute

SpecMinute == Init /\ [][NextMinute]_vars

World == [refs |-> refs, charts |-> charts, listeners |-> listeners, threw |-> FALSE]

\* useSWR delivers the hour candles of a successful (re)fetch.
HourFetchSucceeds ==
    /\ phase = "idle"
    /\ \E h \in NativeHistories : history' = Some(h)
    /\ hourProps' = [isLoading |-> FALSE, error |-> None]
    /\ phase' = "render"
    /\ UNCHANGED <<processedData, nativeView, refs, charts, listeners, effects>>
    /\ UNCHANGED notNativeVars

\* useSWR reports a failed (re)fetch; the data of the last successful fetch,
\* if any, stays.
HourFetchFails ==
    /\ phase = "idle"
    /\ hourProps' = [isLoading |-> FALSE, error |-> Some("Network Error")]
    /\ phase' = "render"
    /\ UNCHANGED <<history, processedData, nativeView, refs, charts, listeners, effects>>
    /\ UNCHANGED notNativeVars

\* Another source is selected: the key of the fetch changes, useSWR has no
\* data for it yet and reports isLoading.
SourceChanges ==
    /\ phase = "idle"
    /\ history' = None
    /\ hourProps' = [isLoading |-> TRUE, error |-> None]
    /\ phase' = "render"
    /\ UNCHANGED <<processedData, nativeView, refs, charts, listeners, effects>>
    /\ UNCHANGED notNativeVars

\* One render of the native CandlestickChart with the props of the moment.
RenderChart ==
    /\ phase = "render"
    /\ processedData' = ProcessedData(history)
    /\ nativeView' = NativeViewOf(hourProps, history, processedData')
    /\ phase' = "effects"
    /\ UNCHANGED <<history, hourProps, refs, charts, listeners, effects>>
    /\ UNCHANGED notNativeVars

\* React runs the effects of the render: a throwing effect ends the
\* component.
FlushEffects ==
    /\ phase = "effects"
    /\ LET flushed == Flush(World, effects, hourProps, history, processedData, nativeView)
       IN  /\ refs' = flushed.world.refs
           /\ charts' = flushed.world.charts
           /\ listeners' = flushed.world.listeners
           /\ effects' = flushed.effects
           /\ phase' = IF flushed.world.threw THEN "threw" ELSE "idle"
    /\ UNCHANGED <<history, processedData, hourProps, nativeView>>
    /\ UNCHANGED notNativeVars

\* The interval is switched to minute: CandlestickChart is unmounted.
Unmount ==
    /\ phase = "idle"
    /\ LET torn == Teardown(World, effects)
       IN  /\ charts' = torn.charts
           /\ listeners' = torn.listeners
    /\ refs' = NoRefs
    /\ effects' = NoEffects
    /\ nativeView' = "none"
    /\ phase' = "unmounted"
    /\ UNCHANGED <<history, processedData, hourProps>>
    /\ UNCHANGED notNativeVars

\* The interval is switched back to hour: a new CandlestickChart is mounted,
\* with the cached response if there is one.
Mount ==
    /\ phase = "unmounted"
    /\ hourProps' = [isLoading |-> ~IsSome(history), error |-> None]
    /\ phase' = "render"
    /\ UNCHANGED <<history, processedData, nativeView, refs, charts, listeners, effects>>
    /\ UNCHANGED notNativeVars

NextNative ==
    \/ HourFetchSucceeds \/ HourFetchFails \/ SourceChanges
    \/ RenderChart \/ FlushEffects \/ Unmount \/ Mount

SpecNative == Init /\ [][NextNative]_vars

\* ------------------------------------------ behaviour: PriceHistoryChart
\* One of the two buttons is clicked: onIntervalChange sets the interval of
\* the parent, which renders PriceHistoryChart again.
IntervalChanges ==
    /\ \E i \in Intervals \ {interval} : interval' = i
    /\ pagePc' = "dirty"
    /\ UNCHANGED <<chartSource, swrCache, inFlight, minuteKey, hourKey, child>>
    /\ UNCHANGED notPageVars

\* The parent passes another source.
PageSourceChanges ==
    /\ \E s \in PageSources \ {chartSource} : chartSource' = s
    /\ pagePc' = "dirty"
    /\ UNCHANGED <<interval, swrCache, inFlight, minuteKey, hourKey, child>>
    /\ UNCHANGED notPageVars

\* One render of PriceHistoryChart: both useSWR calls with the keys of the
\* interval, a request for a key whose entry is empty, and the element.
RenderPage ==
    /\ pagePc = "dirty"
    /\ minuteKey' = MinuteKey(interval, chartSource)
    /\ hourKey' = HourKey(interval, chartSource)
    /\ inFlight' = inFlight \cup
          {k \in HistoryKeys :
              /\ Some(k) \in {minuteKey', hourKey'}
              /\ swrCache[k] = NoCacheEntry}
    /\ child' = ChartElement(interval, UseSWR(minuteKey', swrCache),
                             UseSWR(hourKey', swrCache))
    /\ pagePc' = "rendered"
    /\ UNCHANGED <<interval, chartSource, swrCache>>
    /\ UNCHANGED notPageVars

\* refreshInterval elapses: the key in use is requested again.
RefreshTick ==
    /\ pagePc = "rendered"
    /\ \E k \in HistoryKeys \ inFlight :
        /\ Some(k) \in {minuteKey, hourKey}
        /\ inFlight' = inFlight \cup {k}
    /\ UNCHANGED <<interval, chartSource, swrCache, minuteKey, hourKey,
                   child, pagePc>>
    /\ UNCHANGED notPageVars

\* A request resolves: the entry of its key takes the data and drops the
\* error, whether or not the key is still in use.
HistoryFetchSucceeds ==
    /\ \E k \in inFlight :
        /\ swrCache' = [swrCache EXCEPT ![k] = [data |-> Some(Response(k)),
                                                error |-> None]]
        /\ inFlight' = inFlight \ {k}
    /\ pagePc' = "dirty"
    /\ UNCHANGED <<interval, chartSource, minuteKey, hourKey, child>>
    /\ UNCHANGED notPageVars

\* A request rejects: the entry of its key takes the error and keeps its
\* data.
HistoryFetchFails ==
    /\ \E k \in inFlight :
        /\ swrCache' = [swrCache EXCEPT ![k].error = Some(Failure(k))]
        /\ inFlight' = inFlight \ {k}
    /\ pagePc' = "dirty"
    /\ UNCHANGED <<interval, chartSource, minuteKey, hourKey, child>>
    /\ UNCHANGED notPageVars

NextPage ==
    \/ IntervalChanges \/ PageSourceChanges \/ RenderPage
    \/ RefreshTick \/ HistoryFetchSucceeds \/ HistoryFetchFails

SpecPage == Init /\ [][NextPage]_vars

\* ============================================================ properties
Payload == IF IsSome(data) THEN Get(data) ELSE <<>>
Rendered == pc = "rendered"

\* The positions of the summaries of one source in the aggregator output.
SummariesOf(source) ==
    {j \in 1..Len(aggregatedSources) : aggregatedSources[j].source = source}

HasRecords(sides) == sides.kind = "object" /\ SideEntries(sides) # {}
NumericRecord(record) == IsNumber(Number(record.price))
WellFormed(sides) ==
    /\ sides.kind = "object"
    /\ \A side \in SideEntries(sides) : NumericRecord(Get(sides[side]))

\* C3: a source with both a buy and a sell record (with or without a default
\* record) is summarised with averagePrice = (buy.price + sell.price) / 2,
\* hasSides = true, buyPrice = buy.price and sellPrice = sell.price.
C3_BothSidesAverage ==
    Rendered =>
        \A i \in 1..Len(Payload) :
            LET e == Payload[i]
            IN  (e.sides.kind = "object" /\ IsSome(e.sides.buy) /\ IsSome(e.sides.sell)) =>
                    \E j \in SummariesOf(e.source) :
                        LET sm == aggregatedSources[j]
                            b == Number(Get(e.sides.buy).price)
                            sl == Number(Get(e.sides.sell).price)
                        IN  /\ sm.hasSides
                            /\ sm.buyPrice = Some(b)
                            /\ sm.sellPrice = Some(sl)
                            /\ IF IsNumber(b) /\ IsNumber(sl)
                               THEN /\ IsNumber(sm.averagePrice)
                                    /\ 2 * sm.averagePrice.v = b.v + sl.v
                               ELSE sm.averagePrice.nan

\* Witness of C3: buy "1", sell "2" and a default record; the summary shows 1.5.
C3_Witness ==
    /\ Rendered
    /\ \E i \in 1..Len(Payload) :
        /\ Payload[i].sides.kind = "object"
        /\ IsSome(Payload[i].sides.buy) /\ Get(Payload[i].sides.buy).price = "1"
        /\ IsSome(Payload[i].sides.sell) /\ Get(Payload[i].sides.sell).price = "2"
        /\ IsSome(Payload[i].sides.default)
        /\ \E j \in SummariesOf(Payload[i].source) :
            aggregatedSources[j].averagePrice = Num(150)

\* C4: a source without both buy and sell but with a default record is
\* summarised with the default price, hasSides = false and neither buyPrice
\* nor sellPrice, also when one of buy / sell is present.
C4_DefaultPriority ==
    Rendered =>
        \A i \in 1..Len(Payload) :
            LET e == Payload[i]
            IN  (/\ e.sides.kind = "object"
                 /\ ~(IsSome(e.sides.buy) /\ IsSome(e.sides.sell))
                 /\ IsSome(e.sides.default)) =>
                    \E j \in SummariesOf(e.source) :
                        LET sm == aggregatedSources[j]
                        IN  /\ sm.averagePrice = Number(Get(e.sides.default).price)
                            /\ ~sm.hasSides
                            /\ sm.buyPrice = None
                            /\ sm.sellPrice = None

\* Witness of C4: a buy record "1" next to a default record "2", no sell.
C4_Witness ==
    /\ Rendered
    /\ \E i \in 1..Len(Payload) :
        /\ Payload[i].sides.kind = "object"
        /\ IsSome(Payload[i].sides.buy) /\ Get(Payload[i].sides.buy).price = "1"
        /\ ~IsSome(Payload[i].sides.sell)
        /\ IsSome(Payload[i].sides.default) /\ Get(Payload[i].sides.default).price = "2"
        /\ \E j \in SummariesOf(Payload[i].source) :
            /\ aggregatedSources[j].averagePrice = Num(200)
            /\ ~aggregatedSources[j].hasSides

\* C5: a source with exactly one side record is summarised with that
\* record's price; hasSides is true for buy or sell (only the matching
\* buyPrice / sellPrice is set, to the unified price) and false for default.
C5_SingleSide ==
    Rendered =>
        \A i \in 1..Len(Payload) :
            LET e == Payload[i]
            IN  (e.sides.kind = "object" /\ Cardinality(SideEntries(e.sides)) = 1) =>
                    \E j \in SummariesOf(e.source) :
                        LET sm == aggregatedSources[j]
                            side == CHOOSE x \in SideEntries(e.sides) : TRUE
                            price == Number(Get(e.sides[side]).price)
                        IN  /\ sm.averagePrice = price
                            /\ sm.hasSides = (side # "default")
                            /\ sm.buyPrice = IF side = "buy" THEN Some(price) ELSE None
                            /\ sm.sellPrice = IF side = "sell" THEN Some(price) ELSE None

\* Witness of C5: a source with only a sell record "2".
C5_Witness ==
    /\ Rendered
    /\ \E i \in 1..Len(Payload) :
        /\ Payload[i].sides.kind = "object"
        /\ SideEntries(Payload[i].sides) = {"sell"}
        /\ Get(Payload[i].sides.sell).price = "2"
        /\ \E j \in SummariesOf(Payload[i].source) :
            /\ aggregatedSources[j].sellPrice = Some(Num(200))
            /\ aggregatedSources[j].hasSides

\* C6: a source with no side record never appears in the output, every other
\* well-formed source appears exactly once, every summary belongs to a source
\* of the input, and the output is no longer than the input.
C6_ExactExclusion ==
    Rendered =>
        /\ Len(aggregatedSources) <= Len(Payload)
        /\ \A j \in 1..Len(aggregatedSources) :
            \E i \in 1..Len(Payload) : Payload[i].source = aggregatedSources[j].source
        /\ \A i \in 1..Len(Payload) :
            LET e == Payload[i]
            IN  /\ (e.sides.kind = "object" /\ SideEntries(e.sides) = {}) =>
                        SummariesOf(e.source) = {}
                /\ (WellFormed(e.sides) /\ SideEntries(e.sides) # {}) =>
                        Cardinality(SummariesOf(e.source)) = 1

\* Witness of C6: one source with every side null and one with a record; the
\* output holds the second only.
C6_Witness ==
    /\ Rendered
    /\ Len(Payload) = 2
    /\ \E i \in 1..Len(Payload) :
        /\ Payload[i].sides.kind = "object"
        /\ SideEntries(Payload[i].sides) = {}
    /\ \E i \in 1..Len(Payload) :
        /\ WellFormed(Payload[i].sides)
        /\ SideEntries(Payload[i].sides) = {"sell"}
    /\ Len(aggregatedSources) = 1

\* The record whose price becomes the unified price (the buy record when buy
\* and sell both supply it).
PriceRecord(sides) ==
    IF IsSome(sides.buy) /\ IsSome(sides.sell) THEN Get(sides.buy)
    ELSE IF IsSome(sides.default) THEN Get(sides.default)
    ELSE IF IsSome(sides.buy) THEN Get(sides.buy)
    ELSE Get(sides.sell)

\* C7: the direction, rank change, sparkline and 1h / 24h / 7d changes of a
\* summary are those of the record that supplied its unified price.
C7_AnnotationsFromPriceRecord ==
    Rendered =>
        \A i \in 1..Len(Payload) :
            LET e == Payload[i]
            IN  HasRecords(e.sides) =>
                    \A j \in SummariesOf(e.source) :
                        LET sm == aggregatedSources[j]
                            r == PriceRecord(e.sides)
                        IN  /\ sm.priceDirection =
                                    IF IsSome(r.price_direction)
                                    THEN Get(r.price_direction) ELSE "none"
                            /\ sm.rankChange = r.rank_change
                            /\ sm.sparkline7d =
                                    IF IsSome(r.sparkline_7d) THEN Get(r.sparkline_7d) ELSE <<>>
                            /\ sm.change1h = r.change_1h
                            /\ sm.change24h = r.change_24h
                            /\ sm.change7d = r.change_7d

SortedDescending(list) ==
    \A i, j \in 1..Len(list) :
        i < j => Geq(list[i].averagePrice, list[j].averagePrice)

\* C8: a source with a record whose price is no number is left out of the
\* output, and the output stays sorted in descending order.
C8_MalformedPriceSkipped ==
    Rendered =>
        /\ \A i \in 1..Len(Payload) :
            (HasRecords(Payload[i].sides) /\ ~WellFormed(Payload[i].sides)) =>
                SummariesOf(Payload[i].source) = {}
        /\ SortedDescending(aggregatedSources)

IsObjectEntry(e) == e.sides.kind = "object"

\* C9: an entry whose side map is no object is skipped and the others are
\* aggregated as if it were not there; it never empties the result.
C9_NonObjectSkipped ==
    Rendered =>
        /\ aggregatedSources \in AggregateResults(Some(SelectSeq(Payload, IsObjectEntry)))
        /\ \A i \in 1..Len(Payload) :
            ~IsObjectEntry(Payload[i]) => SummariesOf(Payload[i].source) = {}
        /\ (\E i \in 1..Len(Payload) : HasRecords(Payload[i].sides)) =>
                aggregatedSources # <<>>

\* Witness of C9: a null side map next to a source with records, which is
\* in the output.
C9_Witness ==
    /\ Rendered
    /\ \E i \in 1..Len(Payload) : Payload[i].sides.kind = "null"
    /\ \E i \in 1..Len(Payload) :
        /\ HasRecords(Payload[i].sides)
        /\ SummariesOf(Payload[i].source) # {}

\* The position of a source in the input map.
InputIndex(source) == CHOOSE i \in 1..Len(Payload) : Payload[i].source = source

\* C10: the output is sorted by unified price, descending; equal prices keep
\* the input order; the rank shown at 0-based index i is i + 1 in the mobile
\* and in the desktop view.
C10_RankedDescendingStable ==
    Rendered =>
        /\ SortedDescending(aggregatedSources)
        /\ \A i, j \in 1..Len(aggregatedSources) :
            (i < j /\ aggregatedSources[i].averagePrice = aggregatedSources[j].averagePrice)
                => InputIndex(aggregatedSources[i].source)
                        < InputIndex(aggregatedSources[j].source)
        /\ view.state = "table" =>
            /\ Len(view.mobile) = Len(aggregatedSources)
            /\ Len(view.desktop) = Len(aggregatedSources)
            /\ \A i \in 1..Len(aggregatedSources) :
                /\ view.mobile[i] = [rank |-> i, source |-> aggregatedSources[i].source]
                /\ view.desktop[i] = [rank |-> i, source |-> aggregatedSources[i].source]

NativeSeries == {processedData.buyData, processedData.sellData, processedData.singleData}
InputCandles ==
    IF IsSome(history) /\ IsSome(Get(history).candles) THEN Get(Get(history).candles) ELSE <<>>

\* C1: in every series processCandles returns, the open of candle i > 0 is
\* the close of candle i - 1.
C1_Continuity ==
    chartPc = "native" =>
        \A s \in NativeSeries :
            \A i \in 2..Len(s) : s[i].open = s[i - 1].close

\* Witness of C1: a second candle whose own open differs from the first
\* candle's close, after processCandles.
C1_Witness ==
    /\ chartPc = "native"
    /\ Len(processedData.singleData) = Len(InputCandles)
    /\ \E i \in 2..Len(InputCandles) :
        InputCandles[i].open # InputCandles[i - 1].close

Ordered(c) ==
    /\ Geq(MathMin(c.open, c.close), c.low)
    /\ Geq(c.high, MathMax(c.open, c.close))

\* C2: every candle handed to a rendering primitive has
\* low <= min(open, close) <= max(open, close) <= high.
C2_RenderedCandlesOrdered ==
    /\ chartPc = "native" =>
        \A s \in NativeSeries : \A i \in 1..Len(s) : Ordered(s[i])
    /\ chartPc = "recharts" =>
        \A i \in 1..Len(chartData.allData) : Ordered(chartData.allData[i])

\* C11: a render of the latest-prices table raises no exception, whatever the
\* payload: it ends in one of the display states (loading, error, no data,
\* table).
C11_RenderNeverThrows ==
    Rendered => view.state \in {"loading", "error", "empty", "table"}

SingleSeries == processedData.singleData

\* C12: processCandles returns as many candles as it is given, with the same
\* bucket times in the same order; candle 0 keeps its open, high, low and
\* close; every candle keeps its close.
C12_ContinuityFrame ==
    chartPc = "native" =>
        /\ Len(SingleSeries) = Len(InputCandles)
        /\ \A i \in 1..Len(InputCandles) :
            /\ SingleSeries[i].time = UnixTime(InputCandles[i].bucket)
            /\ SingleSeries[i].close = Number(InputCandles[i].close)
        /\ \A i, j \in 1..Len(SingleSeries) :
            i < j => SingleSeries[i].time < SingleSeries[j].time
        /\ Len(InputCandles) > 0 =>
            /\ SingleSeries[1].open = Number(InputCandles[1].open)
            /\ SingleSeries[1].high = Number(InputCandles[1].high)
            /\ SingleSeries[1].low = Number(InputCandles[1].low)

\* Witness of C12: a first candle whose open lies above its high, followed by
\* a second candle, after processCandles.
C12_Witness ==
    /\ chartPc = "native"
    /\ Len(InputCandles) = 2
    /\ InputCandles[1].open = "3"
    /\ InputCandles[1].high = "2"
    /\ SingleSeries[1].high = Num(2 * Scale)

\* C13: for i > 0 the output high is max(input high, output open) and the
\* output low is min(input low, output open); so low <= open <= high, high
\* never decreases, low never increases, and both are unchanged when the
\* previous close lies within [low, high].
C13_Widening ==
    chartPc = "native" =>
        \A i \in 2..Len(SingleSeries) :
            LET out == SingleSeries[i]
                high0 == Number(InputCandles[i].high)
                low0 == Number(InputCandles[i].low)
                prevClose == SingleSeries[i - 1].close
            IN  /\ out.high.v = IF high0.v >= out.open.v THEN high0.v ELSE out.open.v
                /\ out.low.v = IF low0.v <= out.open.v THEN low0.v ELSE out.open.v
                /\ out.low.v <= out.open.v /\ out.open.v <= out.high.v
                /\ out.high.v >= high0.v
                /\ out.low.v <= low0.v
                /\ (low0.v <= prevClose.v /\ prevClose.v <= high0.v) =>
                        (out.high = high0 /\ out.low = low0)

\* Witness of C13: the first candle closes at 3, above the second candle's
\* high of 2, which is widened to 3.
C13_Witness ==
    /\ chartPc = "native"
    /\ Len(InputCandles) = 2
    /\ InputCandles[1].close = "3"
    /\ InputCandles[2].high = "2"
    /\ SingleSeries[2].high = Num(3 * Scale)

\* The decimal string of a whole number, and the candle record an adjusted
\* candle is when it is fed to processCandles again.
ToDecimalString(n) == DecimalStrings[n.v \div Scale]
AsCandlePoint(c) ==
    [bucket |-> c.time \div 3600,
     open |-> ToDecimalString(c.open), high |-> ToDecimalString(c.high),
     low |-> ToDecimalString(c.low), close |-> ToDecimalString(c.close)]
AsCandlePoints(series) == [i \in 1..Len(series) |-> AsCandlePoint(series[i])]

\* C14: processCandles applied to its own output returns that output.
C14_Idempotent ==
    chartPc = "native" =>
        processCandles(AsCandlePoints(SingleSeries)) = SingleSeries

\* Witness of C14: an output that differs from its input (the second open
\* was overridden and the high widened), fed to processCandles again.
C14_Witness ==
    /\ chartPc = "native"
    /\ Len(InputCandles) = 2
    /\ InputCandles[1].close = "3"
    /\ InputCandles[2].open = "1"
    /\ InputCandles[2].high = "2"
    /\ AsCandlePoints(SingleSeries) # InputCandles
    /\ processCandles(AsCandlePoints(SingleSeries)) = SingleSeries

BuyCandles(h) == IF IsSome(h) THEN Get(Get(h).buy_candles) ELSE <<>>
SellCandles(h) == IF IsSome(h) THEN Get(Get(h).sell_candles) ELSE <<>>

\* C15: a render of the native chart leaves the history it is given as it
\* was, and for a two-sided history the buy sequence and the sell sequence
\* are adjusted independently: each is what processCandles gives for that
\* side alone.
C15_PureAndIndependent ==
    [][(chartPc = "fetching" /\ chartPc' = "native") =>
        /\ history' = history
        /\ processedData'.buyData = processCandles(BuyCandles(history))
        /\ processedData'.sellData = processCandles(SellCandles(history))
        /\ IsSome(history) => processedData'.singleData = <<>>]_vars

\* Witness of C15: a rendered two-sided history whose first sell candle
\* opens away from the last buy close and keeps its own open.
C15_Witness ==
    /\ chartPc = "native"
    /\ Len(BuyCandles(history)) = 2
    /\ Len(SellCandles(history)) = 2
    /\ BuyCandles(history)[2].close = "1"
    /\ SellCandles(history)[1].open = "3"
    /\ processedData.sellData[1].open = Num(3 * Scale)
    /\ processedData.buyData[2].open = Number(BuyCandles(history)[1].close)

\* The bar CandlestickShape was last called for, and what it computed.
Drawn == IsSome(barProps)
BarPayload == Get(Get(barProps).payload)
BarTop == Px(Get(barProps).y, 1)
BarRange == Sub(BarPayload.high, BarPayload.domainMin)
ValidCandle(c) ==
    /\ Geq(c.open, c.low) /\ Geq(c.close, c.low)
    /\ Geq(c.high, c.open) /\ Geq(c.high, c.close)
Geometry == Get(shape)

\* C16: for a valid candle (low <= open, close <= high) drawn with a
\* non-negative bar height and its high above the domain baseline, the bar
\* top is at most the body top, the body top at most the body bottom and the
\* body bottom at most lowY.
C16_ScreenOrdering ==
    (/\ Drawn /\ IsSome(shape)
     /\ ValidCandle(BarPayload)
     /\ Get(barProps).height >= 0
     /\ Gt(BarRange, Num(0))) =>
        /\ PxLeq(BarTop, Geometry.rect.y)
        /\ PxLeq(Geometry.rect.y, Geometry.bodyBottomY)
        /\ PxLeq(Geometry.bodyBottomY, Geometry.lowY)

\* Witness of C16: a valid candle drawn on a bar of 100 pixels with its body
\* strictly between the bar top and lowY.
C16_Witness ==
    /\ Drawn /\ IsSome(shape)
    /\ ValidCandle(BarPayload)
    /\ Get(barProps).height = 100
    /\ Gt(BarRange, Num(0))
    /\ PxLt(BarTop, Geometry.rect.y)
    /\ PxLt(Geometry.rect.y, Geometry.bodyBottomY)
    /\ PxLt(Geometry.bodyBottomY, Geometry.lowY)

\* C17: every valid candle whose high is above the domain baseline yields a
\* drawn body of at least 2 pixels, a candle with high = low included.
C17_BodyAlwaysVisible ==
    (/\ Drawn
     /\ ValidCandle(BarPayload)
     /\ Get(barProps).height >= 0
     /\ Gt(BarRange, Num(0))) =>
        /\ IsSome(shape)
        /\ PxLeq(Px(2, 1), Geometry.rect.height)

\* C18: whenever barRange = high - domainMin is <= 0, CandlestickShape
\* renders nothing.
C18_DegenerateBarGuard ==
    (Drawn /\ Geq(Num(0), BarRange)) => shape = None

\* C19: when geometry is rendered, the upper wick is drawn exactly when
\* min(openY, closeY) > bar top, and the lower wick exactly when
\* max(openY, closeY) < lowY.
C19_WicksWhenBodyInside ==
    (Drawn /\ IsSome(shape)) =>
        /\ IsSome(Geometry.upperWick) <=> PxLt(BarTop, Geometry.rect.y)
        /\ IsSome(Geometry.lowerWick) <=> PxLt(Geometry.bodyBottomY, Geometry.lowY)

\* C20: the domainMin carried by every candle of the rendered chart equals
\* yDomain[0], the lower bound of the Y axis the bars are sized with.
C20_DomainMinIsAxisMin ==
    (chartPc = "recharts" /\ Len(chartData.allData) > 0) =>
        /\ IsSome(yDomain)
        /\ \A i \in 1..Len(chartData.allData) :
            chartData.allData[i].domainMin = Get(yDomain)[1]

\* The position barTop + barHeight * (high - v) / barRange as the fraction
\* of two integers, for barRange > 0.
Interpolated(v) ==
    Px(Get(barProps).y * BarRange.v + Get(barProps).height * (BarPayload.high.v - v.v),
       BarRange.v)
PxSame(a, b) == PxLeq(a, b) /\ PxLeq(b, a)

\* C21: for barRange = high - domainMin > 0 the position computed for low,
\* open and close is barTop + barHeight * (high - v) / barRange; high maps to
\* barTop, domainMin to barTop + barHeight, and of two values the higher one
\* never gets the larger Y.
C21_LinearInterpolation ==
    (Drawn /\ IsSome(shape) /\ Gt(BarRange, Num(0))
        /\ IsNumber(BarPayload.low) /\ IsNumber(BarPayload.open)
        /\ IsNumber(BarPayload.close)) =>
        LET p == Get(barProps)
            c == BarPayload
            Y(v) == ValueY(p.y, p.height, c.high, v, BarRange)
        IN  /\ PxSame(Geometry.lowY, Interpolated(c.low))
            /\ PxSame(Geometry.openY, Interpolated(c.open))
            /\ PxSame(Geometry.closeY, Interpolated(c.close))
            /\ PxSame(Y(c.high), BarTop)
            /\ PxSame(Y(c.domainMin), Px(p.y + p.height, 1))
            /\ \A a, b \in {<<c.low, Geometry.lowY>>, <<c.open, Geometry.openY>>,
                            <<c.close, Geometry.closeY>>} :
                a[1].v > b[1].v => PxLeq(a[2], b[2])

\* Witness of C21: a candle drawn on a bar of 100 pixels whose open, close
\* and low get three different positions below the bar top.
C21_Witness ==
    /\ Drawn /\ IsSome(shape) /\ Gt(BarRange, Num(0))
    /\ Get(barProps).height = 100
    /\ PxLt(BarTop, Geometry.openY)
    /\ PxLt(Geometry.openY, Geometry.closeY)
    /\ PxLt(Geometry.closeY, Geometry.lowY)
    /\ PxSame(Geometry.openY, Interpolated(BarPayload.open))

\* The candle of the history the drawn bar stands for.
BarCandle ==
    CHOOSE c \in {InputCandles[i] : i \in 1..Len(InputCandles)} :
        TimeLabel(c.bucket) = BarPayload.time

\* C22: a candle is green exactly when its close is at least its open, and
\* the body is filled accordingly: a candle with close = open is green and
\* never red.
C22_GreenIffCloseAtLeastOpen ==
    /\ chartPc = "recharts" =>
        \A i \in 1..Len(chartData.allData) :
            LET open == Number(InputCandles[i].open)
                close == Number(InputCandles[i].close)
            IN  chartData.allData[i].isGreen <=>
                    (~open.nan /\ ~close.nan /\ close.v >= open.v)
    /\ (Drawn /\ IsSome(shape)) =>
        LET open == Number(BarCandle.open)
            close == Number(BarCandle.close)
        IN  /\ close.v >= open.v => Geometry.rect.fill = "#26a69a"
            /\ close.v < open.v => Geometry.rect.fill = "#ef5350"

\* Witness of C22: a drawn candle that closes where it opened, filled as a
\* green one.
C22_Witness ==
    /\ Drawn /\ IsSome(shape)
    /\ BarCandle.open = BarCandle.close
    /\ BarPayload.isGreen
    /\ Geometry.rect.fill = "#26a69a"

\* The display state the priority loading > error > no data > table picks
\* for the props and the memo of the render.
ExpectedState ==
    IF isLoading THEN "loading"
    ELSE IF IsSome(error) THEN "error"
    ELSE IF aggregatedSources = <<>> THEN "empty"
    ELSE "table"

\* C23: a render shows the one display state the priority loading > error >
\* no data > table picks, and the error state carries the message of the
\* error; a render changes none of the props (it starts no fetch).
C23_DisplayStatePriority ==
    Rendered =>
        /\ view.state = ExpectedState
        /\ view.state = "error" => view.message = error
        /\ view.state # "error" => view.message = None

\* C24: a render's summary list is an aggregation of the snapshot it is
\* given and nothing else: every summary is of a source of that snapshot,
\* the table rows are the rows of that list, and the snapshot is left as it
\* was.
C24_RebuiltFromLatestSnapshot ==
    [][(pc = "fetching" /\ pc' = "rendered") =>
        /\ data' = data
        /\ aggregatedSources' \in AggregateResults(data')
        /\ \A j \in 1..Len(aggregatedSources') :
            \E i \in 1..Len(Get(data')) :
                Get(data')[i].source = aggregatedSources'[j].source
        /\ view'.state = "table" =>
            /\ view'.mobile = MobileRows(aggregatedSources')
            /\ view'.desktop = DesktopRows(aggregatedSources')]_vars

\* Witness of C24: a snapshot with two quoted sources was rendered, then the
\* refresh failed and the component was rendered again: the list is again the
\* two summaries of that snapshot, and the error state is shown.
C24_Witness ==
    /\ Rendered
    /\ IsSome(error)
    /\ Len(Payload) = 2
    /\ Len(aggregatedSources) = 2
    /\ {aggregatedSources[j].source : j \in 1..2} = {SourceNames[1], SourceNames[2]}
    /\ view.state = "error"

MinuteRendered == minuteView.state # "none"
InputPoints == IF IsSome(minuteProps.history) THEN Get(minuteProps.history).points ELSE <<>>
TwoSided == IsSome(minuteProps.history) /\ Get(minuteProps.history).has_sides
Carries(element) == {k \in {"buy", "sell", "price"} : IsSome(element[k])}

\* C25: the chart data of MinuteChart has one element per input point, in
\* input order; for a two-sided history an element carries buy and / or sell
\* and never price, and the lines buy and sell are drawn; for a one-sided
\* history an element carries price only, and the line price is drawn.
C25_MinuteShaping ==
    MinuteRendered =>
        /\ Len(minuteData) = Len(InputPoints)
        /\ \A i \in 1..Len(InputPoints) :
            /\ minuteData[i].time = MinuteLabel(InputPoints[i].bucket)
            /\ TwoSided => Carries(minuteData[i]) \subseteq {"buy", "sell"}
            /\ ~TwoSided => Carries(minuteData[i]) \subseteq {"price"}
            /\ (TwoSided /\ InputPoints[i].buy_price = Some("1")) =>
                    minuteData[i].buy = Some(Num(Scale))
            /\ (~TwoSided /\ InputPoints[i].average_price = Some("3")) =>
                    minuteData[i].price = Some(Num(3 * Scale))
        /\ minuteView.state = "chart" =>
            minuteView.lines = IF TwoSided THEN <<"buy", "sell">> ELSE <<"price">>

\* Witness of C25: a rendered two-sided history whose first point carries an
\* average_price next to its buy and sell prices, and whose second point has
\* no sell price.
C25_Witness ==
    /\ minuteView.state = "chart"
    /\ TwoSided
    /\ Len(InputPoints) = 2
    /\ InputPoints[1].average_price = Some("3")
    /\ Carries(minuteData[1]) = {"buy", "sell"}
    /\ Carries(minuteData[2]) = {"buy"}

ChartsOf(owner) == {c \in charts : c.owner = owner}
Settled == phase = "idle"

\* C26: each instance (single, buy, sell) owns at most one live chart; a
\* resize listener is registered exactly for the live charts; the chart in a
\* chartRef is a live chart of that instance, and every live chart is in the
\* chartRef of its owner alone; no two instances hold the same series; once
\* the effects of an instance were cleaned
\* up (its condition ended, or the component was unmounted) none of its
\* charts is left.
C26_ChartOwnership ==
    /\ \A o \in Instances : Cardinality(ChartsOf(o)) <= 1
    /\ listeners = {c.id : c \in charts}
    /\ \A o \in Instances :
        /\ IsSome(refs[o].chartRef) =>
            \E c \in ChartsOf(o) : c.id = Get(refs[o].chartRef)
        /\ \A c \in ChartsOf(o) :
            \A i \in Instances : refs[i].chartRef = Some(c.id) <=> i = o
    /\ \A c, d \in charts : c.id = d.id => c = d
    /\ \A o, i \in Instances :
        (o # i /\ IsSome(refs[o].seriesRef)) => refs[o].seriesRef # refs[i].seriesRef
    /\ phase = "unmounted" => charts = {}
    /\ (Settled /\ nativeView # "two") => ChartsOf("buy") \cup ChartsOf("sell") = {}
    /\ (Settled /\ (hourProps.isLoading \/ IsSome(hourProps.error)
                        \/ HasSides(history) = "true")) => ChartsOf("single") = {}

\* Witness of C26: the two child charts are live, each with its listener,
\* after the chart of a one-sided history was removed.
C26_Witness ==
    /\ Settled
    /\ Cardinality(ChartsOf("buy")) = 1
    /\ Cardinality(ChartsOf("sell")) = 1
    /\ ChartsOf("single") = {}
    /\ Cardinality(listeners) = 2
    /\ IsSome(refs["single"].seriesRef)

\* The component is in its chart state for a one-sided history.
SingleChartState ==
    /\ ~hourProps.isLoading
    /\ hourProps.error = None
    /\ HasSides(history) = "false"
    /\ Len(processedData.singleData) > 0

\* C27: for a one-sided history, whenever the component is in its chart
\* state and the effects have run, the live chart holds exactly one series,
\* whose data is the current singleData.
C27_OneSeriesWithCurrentData ==
    (Settled /\ SingleChartState) =>
        \E c \in ChartsOf("single") :
            /\ refs["single"].chartRef = Some(c.id)
            /\ Cardinality(c.series) = 1
            /\ \A x \in c.series : x.data = processedData.singleData

\* C28: the data effect never calls removeSeries with a series that is not
\* one of the live chart's.
C28_RemoveSeriesOfLiveChart ==
    phase # "threw"

\* The series the live charts display.
Displayed == UNION {{x.data : x \in c.series} : c \in charts}

\* C29: when loading is over without an error and the effects have run,
\* every non-empty processed series is displayed by a chart; when all three
\* are empty, the no-data state is shown.
C29_EverySeriesDisplayed ==
    (Settled /\ ~hourProps.isLoading /\ hourProps.error = None) =>
        /\ \A series \in {processedData.buyData, processedData.sellData,
                          processedData.singleData} :
            Len(series) > 0 => series \in Displayed
        /\ (processedData.buyData = <<>> /\ processedData.sellData = <<>>
                /\ processedData.singleData = <<>>) => nativeView = "empty"

PageRendered == pagePc = "rendered"
KindOf(i) == IF i = "minute" THEN "minute-history" ELSE "hour-candles"
KeyInUse == <<KindOf(interval), chartSource>>

\* C30: in every rendered state of PriceHistoryChart the minute key is
\* non-null iff the interval is minute and the hour key is non-null iff the
\* interval is hour, so exactly one fetch is enabled; the element is a
\* MinuteChart for minute and a CandlestickChart for hour; its history,
\* loading flag and error are those of the key of the interval and source in
\* use, so a history or an error of the other interval never reaches it.
C30_IntervalSwitching ==
    PageRendered =>
        /\ IsSome(minuteKey) <=> interval = "minute"
        /\ IsSome(hourKey) <=> interval = "hour"
        /\ Cardinality({key \in {minuteKey, hourKey} : IsSome(key)}) = 1
        /\ {minuteKey, hourKey} = {None, Some(KeyInUse)}
        /\ child.component =
              (IF interval = "minute" THEN "MinuteChart" ELSE "CandlestickChart")
        /\ child.history = swrCache[KeyInUse].data
        /\ child.error = swrCache[KeyInUse].error
        /\ child.isLoading = (swrCache[KeyInUse] = NoCacheEntry)
        /\ IsSome(child.history) => Get(child.history).kind = KindOf(interval)
        /\ IsSome(child.error) => Get(child.error).kind = KindOf(interval)

\* Witness of C30: after switching from hour to minute the MinuteChart is
\* rendered with the minute history alone, while the hour key of the same
\* source holds candles and an error that are not passed on.
C30_Witness ==
    /\ PageRendered
    /\ interval = "minute"
    /\ child.component = "MinuteChart"
    /\ IsSome(child.history)
    /\ ~IsSome(child.error)
    /\ IsSome(swrCache[<<"hour-candles", chartSource>>].data)
    /\ IsSome(swrCache[<<"hour-candles", chartSource>>].error)

====
